---- MODULE Spec2Model ----
(***************************************************************************)
(* California housing price predictor (src/california_housing_app.py).     *)
(*                                                                         *)
(* Two specifications over one set of variables:                           *)
(*   Spec     the two pure functions, predict_california_price and         *)
(*            get_location_insights, applied to argument vectors drawn     *)
(*            from bounded sets (slider values and out-of-range values);   *)
(*   Session  the Streamlit page: the script reruns on every slider move   *)
(*            (button False) and on every press of the predict button.     *)
(*                                                                         *)
(* Number representation.  The code computes in binary floating point; the *)
(* model computes the same quantities exactly, in integers:                *)
(*   med_inc, latitude, longitude        in tenths      (8.0   -> 80)      *)
(*   ave_rooms, ave_bedrms, ave_occup    in hundredths  (5.33  -> 533)     *)
(*   house_age, population               as they are                       *)
(*   money before int()                  in ticks of 1/Unit dollar         *)
(* Unit = 1290 makes every term an integer: med_inc / 3.87 * 120000 is     *)
(* 400000/129 dollars per tenth of income, and the regional multipliers    *)
(* have one decimal.  int() is the truncating division by Unit.            *)
(***************************************************************************)
EXTENDS Integers, Sequences, FiniteSets

VARIABLES
    med_inc, house_age, latitude, longitude,      \* the feature vector
    ave_rooms, ave_bedrms, population, ave_occup,
    location_name,     \* label returned by get_location_insights, or NoValue
    priced,            \* TRUE when a prediction has been computed / is displayed
    raw_price,         \* total_price after line 59 (before the multiplier), ticks
    multiplier,        \* the factor applied at lines 63-72, in tenths (10 = none)
    adjusted_price,    \* total_price after line 72 (before the clamp), ticks
    predicted_price,   \* the returned integer, dollars
    confidence,        \* int(predicted_price * 0.15)
    range_low,         \* the displayed lower bound of the confidence range
    range_high,        \* the displayed upper bound of the confidence range
    first,             \* Session only: the first prediction of the session
    varied             \* Session only: TRUE once a later prediction used other values

features == <<med_inc, house_age, latitude, longitude,
              ave_rooms, ave_bedrms, population, ave_occup>>

vars == <<med_inc, house_age, latitude, longitude,
          ave_rooms, ave_bedrms, population, ave_occup,
          location_name, priced, raw_price, multiplier, adjusted_price,
          predicted_price, confidence, range_low, range_high, first, varied>>

NoValue == "none"
NoRun == <<>>

Unit == 129 * 10

Max(a, b) == IF a >= b THEN a ELSE b
Min(a, b) == IF a <= b THEN a ELSE b

\* Python's int() on a float: truncation toward zero (x in ticks -> dollars).
IntTrunc(x) == IF x >= 0 THEN x \div Unit ELSE -((-x) \div Unit)

-----------------------------------------------------------------------------
(* predict_california_price, lines 16-77 *)

base_price == 206856

income_factor_floordiv(mi) == ((mi * 10) \div 387) * 120000 * Unit

\* (med_inc / 3.87) * 120000
income_factor(mi) == mi * 4000000

\* max(0, (-122 - longitude) * 8000)
coastal_premium(lo) == Max(0, (-1220 - lo) * 800 * Unit)

\* (35 - latitude) * 5000
latitude_adjustment(la) == (350 - la) * 500 * Unit

\* max(0, (50 - house_age) * 800)
age_factor(ha) == Max(0, (50 - ha) * 800 * Unit)

\* (ave_rooms - 5.33) * 5000
rooms_factor(ro) == (ro - 533) * 50 * Unit

\* (ave_bedrms - 1.08) * 8000
bedrooms_factor(be) == (be - 108) * 80 * Unit

\* (2.92 - ave_occup) * 3000
occupancy_factor(oc) == (292 - oc) * 30 * Unit

\* (population - 1425) * 2
population_factor(po) == (po - 1425) * 2 * Unit

total_price_without_base(mi, ha, la, lo, ro, be, po, oc) ==
    income_factor(mi) + coastal_premium(lo) + latitude_adjustment(la)
    + age_factor(ha) + rooms_factor(ro) + bedrooms_factor(be)
    + occupancy_factor(oc) + population_factor(po)

\* lines 49-59: the sum before the regional multiplier
total_price(mi, ha, la, lo, ro, be, po, oc) ==
    base_price * Unit
    + income_factor(mi) + coastal_premium(lo) + latitude_adjustment(la)
    + age_factor(ha) + rooms_factor(ro) + bedrooms_factor(be)
    + occupancy_factor(oc) + population_factor(po)

\* the conditions of the three rules, lines 63, 67 and 71
bay_area_rule(la, lo) == lo < -1215 /\ la > 370
socal_coastal_rule(la, lo) == lo < -1175 /\ la < 345
la_metro_rule(la, lo) == -1185 < lo /\ lo < -1175 /\ 335 < la /\ la < 345

regional_multiplier_or(la, lo) ==
    IF lo < -1215 \/ la > 370 THEN 18
    ELSE IF socal_coastal_rule(la, lo) THEN 14
    ELSE IF la_metro_rule(la, lo) THEN 13
    ELSE 10

\* lines 63-72: the if / elif / elif chain, in tenths
regional_multiplier(la, lo) ==
    IF bay_area_rule(la, lo) THEN 18
    ELSE IF socal_coastal_rule(la, lo) THEN 14
    ELSE IF la_metro_rule(la, lo) THEN 13
    ELSE 10

\* total_price *= multiplier (total_price in ticks is a multiple of 10)
apply_multiplier(t, k) == (t \div 10) * k

clamp_no_ceiling(t) == Max(50000 * Unit, t)

\* line 75: max(50000, min(1500000, total_price))
clamp(t) == Max(50000 * Unit, Min(1500000 * Unit, t))

\* lines 48-77 with the intermediate values of total_price kept
prediction(mi, ha, la, lo, ro, be, po, oc) ==
    LET raw == total_price(mi, ha, la, lo, ro, be, po, oc)
        k   == regional_multiplier(la, lo)
        adj == apply_multiplier(raw, k)
    IN  [raw |-> raw, multiplier |-> k, adjusted |-> adj,
         price |-> IntTrunc(clamp(adj))]

\* lines 16-77: the returned value
predict_california_price(mi, ha, la, lo, ro, be, po, oc) ==
    prediction(mi, ha, la, lo, ro, be, po, oc).price

-----------------------------------------------------------------------------
(* get_location_insights, lines 79-92 *)

get_location_insights_no_metro(la, lo) ==
    IF lo < -1215 /\ la > 370 THEN "San Francisco Bay Area"
    ELSE IF lo < -1185 /\ la < 345 THEN "Southern California Coast"
    ELSE IF lo < -1185 THEN "Central Coast"
    ELSE IF la < 350 THEN "Southern California Inland"
    ELSE "Northern California Inland"

get_location_insights_central_first(la, lo) ==
    IF lo < -1215 /\ la > 370 THEN "San Francisco Bay Area"
    ELSE IF -1185 < lo /\ lo < -1175 /\ 335 < la /\ la < 345 THEN "Los Angeles Metro"
    ELSE IF lo < -1185 THEN "Central Coast"
    ELSE IF lo < -1185 /\ la < 345 THEN "Southern California Coast"
    ELSE IF la < 350 THEN "Southern California Inland"
    ELSE "Northern California Inland"

\* lines 81-92: the label (the first element of the returned pair)
get_location_insights(la, lo) ==
    IF lo < -1215 /\ la > 370 THEN "San Francisco Bay Area"
    ELSE IF -1185 < lo /\ lo < -1175 /\ 335 < la /\ la < 345 THEN "Los Angeles Metro"
    ELSE IF lo < -1185 /\ la < 345 THEN "Southern California Coast"
    ELSE IF lo < -1185 THEN "Central Coast"
    ELSE IF la < 350 THEN "Southern California Inland"
    ELSE "Northern California Inland"

-----------------------------------------------------------------------------
(* Spec: the two functions applied to argument vectors *)

\* Slider values (with the boundary-adjacent ones of every rule) and, for
\* med_inc, latitude, longitude and population, values outside the slider
\* ranges: the functions do not validate their arguments.
MedIncArgs == {-50, 5, 38, 80, 129, 150}
HouseAgeArgs == {1, 25, 50, 52}
LatitudeArgs == {300, 320, 335, 336, 340, 344, 345, 349, 350, 370, 371, 375, 420}
LongitudeArgs == {-1250, -1240, -1222, -1216, -1215, -1186, -1185, -1184,
                  -1180, -1176, -1175, -1140}
AveRoomsArgs == {100, 1000}
AveBedrmsArgs == {50, 300}
PopulationArgs == {3, 1425, 10000, 60000}
AveOccupArgs == {100, 600}

Init ==
    /\ med_inc \in MedIncArgs
    /\ house_age \in HouseAgeArgs
    /\ latitude \in LatitudeArgs
    /\ longitude \in LongitudeArgs
    /\ ave_rooms \in AveRoomsArgs
    /\ ave_bedrms \in AveBedrmsArgs
    /\ population \in PopulationArgs
    /\ ave_occup \in AveOccupArgs
    /\ location_name = NoValue
    /\ priced = FALSE
    /\ raw_price = 0
    /\ multiplier = 0
    /\ adjusted_price = 0
    /\ predicted_price = 0
    /\ confidence = 0
    /\ range_low = 0
    /\ range_high = 0
    /\ first = NoRun
    /\ varied = FALSE

\* a call of predict_california_price on the argument vector
CallPredict ==
    /\ ~priced
    /\ LET r == prediction(med_inc, house_age, latitude, longitude,
                           ave_rooms, ave_bedrms, population, ave_occup)
       IN  /\ raw_price' = r.raw
           /\ multiplier' = r.multiplier
           /\ adjusted_price' = r.adjusted
           /\ predicted_price' = r.price
    /\ priced' = TRUE
    /\ UNCHANGED <<features, location_name, confidence, range_low, range_high,
                   first, varied>>

\* a call of get_location_insights on the argument vector
CallInsights ==
    /\ location_name = NoValue
    /\ location_name' = get_location_insights(latitude, longitude)
    /\ UNCHANGED <<features, priced, raw_price, multiplier, adjusted_price,
                   predicted_price, confidence, range_low, range_high,
                   first, varied>>

Next == CallPredict \/ CallInsights

Spec == Init /\ [][Next]_vars

-----------------------------------------------------------------------------
(* Session: the Streamlit page, lines 94-205 *)

confidence_range_scaled(p) ==
    [confidence |-> (p * 15) \div 100,
     low |-> (p * 85) \div 100, high |-> (p * 115) \div 100]

\* lines 181-183: confidence = int(predicted_price * 0.15) and the two
\* bounds formatted into the "Confidence Range" text
confidence_range(p) ==
    LET c == (p * 15) \div 100
    IN  [confidence |-> c, low |-> p - c, high |-> p + c]

button_result_cached(mi, ha, la, lo, ro, be, po, oc) ==
    IF first # NoRun THEN first.result
    ELSE prediction(mi, ha, la, lo, ro, be, po, oc)

\* lines 172-175: the value the button handler computes
button_result(mi, ha, la, lo, ro, be, po, oc) ==
    prediction(mi, ha, la, lo, ro, be, po, oc)

\* Positions the sliders are moved to (lines 102-151); the defaults are the
\* positions the page starts with.
MedIncSlider == {5, 6, 80, 150}
HouseAgeSlider == {25, 52}
LatitudeSlider == {340, 371}
LongitudeSlider == {-1220, -1180}
AveRoomsSlider == {1000}
AveBedrmsSlider == {300}
PopulationSlider == {4953}
AveOccupSlider == {600}

\* One run of the script with the widget values given: the location analysis
\* of line 154 always, the prediction and its display (lines 170-186) when
\* the button triggered the run; nothing of an earlier run stays on the page.
Rerun(mi, ha, la, lo, ro, be, po, oc, button) ==
    /\ med_inc' = mi
    /\ house_age' = ha
    /\ latitude' = la
    /\ longitude' = lo
    /\ ave_rooms' = ro
    /\ ave_bedrms' = be
    /\ population' = po
    /\ ave_occup' = oc
    /\ location_name' = get_location_insights(la, lo)
    /\ priced' = button
    /\ IF button
       THEN LET r == button_result(mi, ha, la, lo, ro, be, po, oc)
                c == confidence_range(r.price)
            IN  /\ raw_price' = r.raw
                /\ multiplier' = r.multiplier
                /\ adjusted_price' = r.adjusted
                /\ predicted_price' = r.price
                /\ confidence' = c.confidence
                /\ range_low' = c.low
                /\ range_high' = c.high
                /\ first' = IF first = NoRun
                            THEN [features |-> <<mi, ha, la, lo, ro, be, po, oc>>,
                                  result |-> r]
                            ELSE first
                /\ varied' = (varied \/ (first # NoRun /\
                                 first.features # <<mi, ha, la, lo, ro, be, po, oc>>))
       ELSE /\ raw_price' = 0
            /\ multiplier' = 0
            /\ adjusted_price' = 0
            /\ predicted_price' = 0
            /\ confidence' = 0
            /\ range_low' = 0
            /\ range_high' = 0
            /\ first' = first
            /\ varied' = varied

\* the page as first rendered: default slider values, button not pressed
InitSession ==
    /\ med_inc = 80
    /\ house_age = 25
    /\ latitude = 340
    /\ longitude = -1180
    /\ ave_rooms = 533
    /\ ave_bedrms = 108
    /\ population = 1425
    /\ ave_occup = 292
    /\ location_name = get_location_insights(340, -1180)
    /\ priced = FALSE
    /\ raw_price = 0
    /\ multiplier = 0
    /\ adjusted_price = 0
    /\ predicted_price = 0
    /\ confidence = 0
    /\ range_low = 0
    /\ range_high = 0
    /\ first = NoRun
    /\ varied = FALSE

MoveMedInc ==
    \E v \in MedIncSlider \ {med_inc} :
        Rerun(v, house_age, latitude, longitude,
              ave_rooms, ave_bedrms, population, ave_occup, FALSE)

MoveHouseAge ==
    \E v \in HouseAgeSlider \ {house_age} :
        Rerun(med_inc, v, latitude, longitude,
              ave_rooms, ave_bedrms, population, ave_occup, FALSE)

MoveLatitude ==
    \E v \in LatitudeSlider \ {latitude} :
        Rerun(med_inc, house_age, v, longitude,
              ave_rooms, ave_bedrms, population, ave_occup, FALSE)

MoveLongitude ==
    \E v \in LongitudeSlider \ {longitude} :
        Rerun(med_inc, house_age, latitude, v,
              ave_rooms, ave_bedrms, population, ave_occup, FALSE)

MoveAveRooms ==
    \E v \in AveRoomsSlider \ {ave_rooms} :
        Rerun(med_inc, house_age, latitude, longitude,
              v, ave_bedrms, population, ave_occup, FALSE)

MoveAveBedrms ==
    \E v \in AveBedrmsSlider \ {ave_bedrms} :
        Rerun(med_inc, house_age, latitude, longitude,
              ave_rooms, v, population, ave_occup, FALSE)

MovePopulation ==
    \E v \in PopulationSlider \ {population} :
        Rerun(med_inc, house_age, latitude, longitude,
              ave_rooms, ave_bedrms, v, ave_occup, FALSE)

MoveAveOccup ==
    \E v \in AveOccupSlider \ {ave_occup} :
        Rerun(med_inc, house_age, latitude, longitude,
              ave_rooms, ave_bedrms, population, v, FALSE)

\* line 170: st.button returns True for the run the press triggers
PressButton ==
    Rerun(med_inc, house_age, latitude, longitude,
          ave_rooms, ave_bedrms, population, ave_occup, TRUE)

NextSession ==
    \/ MoveMedInc
    \/ MoveHouseAge
    \/ MoveLatitude
    \/ MoveLongitude
    \/ MoveAveRooms
    \/ MoveAveBedrms
    \/ MovePopulation
    \/ MoveAveOccup
    \/ PressButton

Session == InitSession /\ [][NextSession]_vars

-----------------------------------------------------------------------------
(* Properties *)

\* the domains of the data model: the slider ranges, with population up to 10000
InDataModelDomain ==
    /\ 5 <= med_inc /\ med_inc <= 150
    /\ 1 <= house_age /\ house_age <= 52
    /\ 320 <= latitude /\ latitude <= 420
    /\ -1240 <= longitude /\ longitude <= -1140
    /\ 100 <= ave_rooms /\ ave_rooms <= 1000
    /\ 50 <= ave_bedrms /\ ave_bedrms <= 300
    /\ 3 <= population /\ population <= 10000
    /\ 100 <= ave_occup /\ ave_occup <= 600

AtExample ==
    /\ med_inc = 80 /\ house_age = 25 /\ latitude = 340 /\ longitude = -1180
    /\ ave_rooms = 533 /\ ave_bedrms = 108 /\ population = 1425 /\ ave_occup = 292

\* C1: every price predict_california_price returns, for arguments inside
\* and outside the slider ranges, is an integer between 50000 and 1500000.
C1_PriceWithinBounds ==
    priced => /\ predicted_price \in Int
              /\ 50000 <= predicted_price
              /\ predicted_price <= 1500000

\* C1 witness: an out-of-range argument vector whose price before the clamp
\* exceeds the ceiling, returned as 1500000.
C1_Witness ==
    /\ priced
    /\ ~InDataModelDomain
    /\ adjusted_price > 1500000 * Unit
    /\ predicted_price = 1500000

\* C1, the floor: an out-of-range vector whose sum is negative returns 50000.
C1_WitnessFloor ==
    /\ priced
    /\ adjusted_price < 0
    /\ predicted_price = 50000

\* C2 as stated: at the example input (34.0, -118.0, income 8.0, age 25,
\* defaults) the location is labelled "Southern California Inland".
C2_ExampleIsSoCalInland ==
    AtExample => location_name = "Southern California Inland"

\* C2 amended: at the example input the location is labelled
\* "Los Angeles Metro" (the second rule of get_location_insights).
C2_ExampleIsLAMetro ==
    AtExample => location_name = "Los Angeles Metro"

\* C2 witness: the example input, predicted and displayed.
C2_Witness ==
    /\ AtExample
    /\ priced
    /\ location_name = "Los Angeles Metro"

\* C3 as stated: no in-range latitude/longitude satisfies the condition of
\* more than one of the three multiplier rules.
C3_RulesNonOverlapping ==
    LET bay   == longitude < -1215 /\ latitude > 370
        socal == longitude < -1175 /\ latitude < 345
        metro == -1185 < longitude /\ longitude < -1175
                 /\ 335 < latitude /\ latitude < 345
    IN  (priced /\ InDataModelDomain) =>
            /\ ~(bay /\ socal)
            /\ ~(bay /\ metro)
            /\ ~(socal /\ metro)

\* C4 as stated: every input in the LA metro rectangle has its price
\* multiplied by exactly 1.3.
C4_LAMetroGets13 ==
    (/\ priced
     /\ -1185 < longitude /\ longitude < -1175
     /\ 335 < latitude /\ latitude < 345)
    => /\ multiplier = 13
       /\ raw_price % 10 = 0
       /\ adjusted_price = (raw_price \div 10) * 13

\* C4, what the code does: the 1.3 multiplier is applied to no input.
C4_MultiplierNever13 ==
    priced => multiplier # 13

\* C5: exactly one multiplier of {1.8, 1.4, 1.3, 1.0} is applied, once, and
\* it is that of the first rule, in the order Bay Area, SoCal coastal, LA
\* metro, whose rectangle holds the point (1.0 if none); a point with
\* longitude < -121.5 and latitude > 37.0 gets 1.8.
C5_FirstRuleWins ==
    LET bay   == longitude < -1215 /\ latitude > 370
        socal == longitude < -1175 /\ latitude < 345
        metro == -1185 < longitude /\ longitude < -1175
                 /\ 335 < latitude /\ latitude < 345
    IN  priced =>
            /\ multiplier \in {18, 14, 13, 10}
            /\ raw_price % 10 = 0
            /\ adjusted_price = (raw_price \div 10) * multiplier
            /\ bay => multiplier = 18
            /\ (~bay /\ socal) => multiplier = 14
            /\ (~bay /\ ~socal /\ metro) => multiplier = 13
            /\ (~bay /\ ~socal /\ ~metro) => multiplier = 10

\* C5 witness: the Bay Area point (-122.2, 37.5) priced with 1.8.
C5_Witness ==
    /\ priced
    /\ InDataModelDomain
    /\ longitude = -1222 /\ latitude = 375
    /\ multiplier = 18
    /\ adjusted_price = (raw_price \div 10) * 18

SameButIncome(f) ==
    /\ f[1] # med_inc
    /\ f[2] = house_age /\ f[3] = latitude /\ f[4] = longitude
    /\ f[5] = ave_rooms /\ f[6] = ave_bedrms
    /\ f[7] = population /\ f[8] = ave_occup

\* C6: of two predictions whose slider values differ only in median income,
\* the one with the larger income has the strictly larger raw price (the
\* sum before the multiplier and the clamp).
C6_IncomeMonotone ==
    (priced /\ first # NoRun /\ SameButIncome(first.features)) =>
        /\ first.features[1] < med_inc => first.result.raw < raw_price
        /\ first.features[1] > med_inc => first.result.raw > raw_price

\* C6 witness: a prediction after the first one, with only the income raised
\* by one slider step (0.5 to 0.6).
C6_Witness ==
    /\ priced
    /\ first # NoRun
    /\ SameButIncome(first.features)
    /\ first.features[1] = 5 /\ med_inc = 6
    /\ first.result.raw < raw_price

\* C7: the displayed range is symmetric around the price: with
\* margin = int(price * 0.15) the bounds are price - margin and
\* price + margin, so upper - price = price - lower.
C7_RangeSymmetric ==
    priced =>
        /\ confidence = (predicted_price * 15) \div 100
        /\ range_low = predicted_price - confidence
        /\ range_high = predicted_price + confidence
        /\ range_high - predicted_price = predicted_price - range_low

\* C7 witness: a displayed price whose 15% is not a whole number, so that
\* int() truncates the margin.
C7_Witness ==
    /\ priced
    /\ (predicted_price * 15) % 100 # 0
    /\ range_low < predicted_price
    /\ predicted_price < range_high

\* C8: a displayed price is predict_california_price of the slider values of
\* the same run, and a prediction that repeats the feature vector of the
\* first prediction of the session shows the price shown then.
C8_FreshEstimate ==
    priced =>
        /\ predicted_price =
               predict_california_price(med_inc, house_age, latitude, longitude,
                                        ave_rooms, ave_bedrms, population, ave_occup)
        /\ (first # NoRun /\ first.features = features)
               => predicted_price = first.result.price

\* C8 witness: the first feature vector predicted again after a prediction
\* with other slider values.
C8_Witness ==
    /\ priced
    /\ first # NoRun
    /\ varied
    /\ first.features = features
    /\ predicted_price = first.result.price

\* C9: get_location_insights returns, for every latitude and longitude, the
\* label of the first rule that holds in the order Bay Area, Los Angeles
\* Metro, Southern California Coast, Central Coast, Southern California
\* Inland, and "Northern California Inland" when none holds.
C9_FirstLabelWins ==
    LET r1 == longitude < -1215 /\ latitude > 370
        r2 == -1185 < longitude /\ longitude < -1175
              /\ 335 < latitude /\ latitude < 345
        r3 == longitude < -1185 /\ latitude < 345
        r4 == longitude < -1185
        r5 == latitude < 350
    IN  location_name # NoValue =>
            /\ r1 => location_name = "San Francisco Bay Area"
            /\ (~r1 /\ r2) => location_name = "Los Angeles Metro"
            /\ (~r1 /\ ~r2 /\ r3) => location_name = "Southern California Coast"
            /\ (~r1 /\ ~r2 /\ ~r3 /\ r4) => location_name = "Central Coast"
            /\ (~r1 /\ ~r2 /\ ~r3 /\ ~r4 /\ r5)
                   => location_name = "Southern California Inland"
            /\ (~r1 /\ ~r2 /\ ~r3 /\ ~r4 /\ ~r5)
                   => location_name = "Northern California Inland"

\* C9 witness: an in-range point west of -118.5 that is neither Bay Area nor
\* south of 34.5 is labelled "Central Coast".
C9_Witness ==
    /\ InDataModelDomain
    /\ longitude = -1186 /\ latitude = 345
    /\ location_name = "Central Coast"

\* C9, the other five labels, each returned for an in-range point.
C9_WitnessBayArea ==
    InDataModelDomain /\ location_name = "San Francisco Bay Area"

C9_WitnessLAMetro ==
    InDataModelDomain /\ location_name = "Los Angeles Metro"

C9_WitnessSoCalCoast ==
    InDataModelDomain /\ location_name = "Southern California Coast"

C9_WitnessSoCalInland ==
    InDataModelDomain /\ location_name = "Southern California Inland"

C9_WitnessNorCalInland ==
    InDataModelDomain /\ location_name = "Northern California Inland"

\* C10: for every feature vector inside the data-model domains the price
\* after the multiplier lies strictly between 50000 and 1500000, so the
\* clamp leaves it unchanged.
C10_ClampIdle ==
    (priced /\ InDataModelDomain) =>
        /\ 50000 * Unit < adjusted_price
        /\ adjusted_price < 1500000 * Unit
        /\ predicted_price = adjusted_price \div Unit

\* C10 witness: the in-range vector with the largest price (top income, new
\* house, Bay Area just north of 37.0, west coast), below the ceiling.
C10_Witness ==
    /\ priced
    /\ med_inc = 150 /\ house_age = 1 /\ latitude = 371 /\ longitude = -1240
    /\ ave_rooms = 1000 /\ ave_bedrms = 300 /\ population = 10000
    /\ ave_occup = 100
    /\ multiplier = 18
    /\ predicted_price = 1400926

====
